---- MODULE Spec2Model ----
(***************************************************************************)
(* A model of four pieces of the OSSOS pipeline glue code:                 *)
(*   - copy            (daomop/storage.py): the bounded retry loop around  *)
(*                      the VOSpace client's copy;                         *)
(*   - match_lists     (pipeline/astrom_mag_check.py): the bidirectional   *)
(*                      nearest-neighbour match of two position lists;     *)
(*   - reset_datasec   (daomop/storage.py): the re-mapping of a DATASEC    *)
(*                      string under an image cutout;                      *)
(*   - SyncingVOFile   (ossos/storage/__init__.py): the append-only file   *)
(*                      backed by a local copy and synced on flush.        *)
(* Each piece has its own variables, initial states and next-state         *)
(* relation; while one piece runs the others stay idle.                    *)
(***************************************************************************)
EXTENDS Integers, Sequences, FiniteSets, TLC

VARIABLES
    \* copy
    cpc,        \* "idle" | "try" | "returned" | "raised"
    cargs,      \* <<source, destination>>
    count,      \* the local variable count
    calls,      \* the calls made to vospace.client.copy, with their outcomes
    cret,       \* the value copy returned
    cexc,       \* the exception copy raised
    \* match_lists
    mpc,        \* "idle" | "loop" | "returned" | "raised"
    pos1,       \* the first list of x/y positions
    pos2,       \* the second list of x/y positions
    tolerance,  \* the distance, in pixels, to consider a match
    idx1,       \* the index of the outer for loop
    match,      \* the masked array of matched pos2 indices
    \* reset_datasec
    dpc,        \* "idle" | "call" | "done"
    cutout,     \* the cutout argument: None or a string
    datasec,    \* the datasec argument: a string
    naxis1,     \* size of the original image in the x direction
    naxis2,     \* size of the original image in the y direction
    cutwin,     \* the numbers the cutout string was written from, if any
    secwin,     \* the numbers the datasec string was written from
    dresult,    \* what reset_datasec did: [kind, val]
    \* SyncingVOFile
    fpc,        \* "idle" | "new" | "open" | "closed" | "failed"
    uri,        \* the uri argument of the constructor
    vosFile,    \* the file at the URI in VOSpace
    localFile,  \* the file named local_filename, on disk
    buffer,     \* what local_filehandle holds and has not written to disk
    vosCalls,   \* the calls made to the VOSpace client
    lastOp,     \* the last method called and how it ended
    lastRead,   \* <<content>> returned by the last read(), <<>> before
    atOpen,     \* the file at the URI when the constructor was called
    leftOver,   \* the local file when the constructor was called
    written,    \* the content of the write calls so far, in order
    \* get_property, has_property, set_property
    ppc,        \* "idle" | "ready" | "setting"
    impl,       \* which package's functions run: "daomop" | "ossos"
    serverProp, \* the value of the property on the VOSpace node, None if absent
    nodeCache,  \* the node the client has cached: [cached, present, val]
    sent,       \* the values of the property set_property has sent, in order
    newVal,     \* the property_value argument of set_property
    hadValue,   \* whether the property had a value when set_property was called
    wasStale,   \* whether the cached node differed from VOSpace at the last call
    pop,        \* the last function that returned, or "other" for another client
    lastRet,    \* what the last get_property or has_property returned
    \* phot, phot_mag
    hpc,        \* "idle" | "lines" | "returned" | "raised"
    pdump_out,  \* the lines iraf.pdump printed, each split into its values
    apcor,      \* the aperture correction, in hundredths of a magnitude
    lineno,     \* the line the loop over pdump_out is at
    hdata,      \* hdu['data']: for each column the list of its values
    hresult     \* what phot_mag returned: [kind, val]

cvars == <<cpc, cargs, count, calls, cret, cexc>>
mvars == <<mpc, pos1, pos2, tolerance, idx1, match>>
dvars == <<dpc, cutout, datasec, naxis1, naxis2, cutwin, secwin, dresult>>
fvars == <<fpc, uri, vosFile, localFile, buffer, vosCalls, lastOp, lastRead,
           atOpen, leftOver, written>>
pvars == <<ppc, impl, serverProp, nodeCache, sent, newVal, hadValue, wasStale,
           pop, lastRet>>
hvars == <<hpc, pdump_out, apcor, lineno, hdata, hresult>>

vars == <<cvars, mvars, dvars, fvars, pvars, hvars>>

None == "None"

(***************************************************************************)
(* copy(source, destination)                                               *)
(***************************************************************************)
MAX_RETRY == 10

\* What the client's copy can answer: a result (the size copied) or an error.
CopyResults == {100, 200}
CopyErrors == {"IOError", "OSError"}
CopyURIs == {"vos:a", "/tmp/a"}

\* count += 1 in the except clause.
CountAfterFailureStuck(c) == c
CountAfterFailure(c) == c + 1

\* if count > MAX_RETRY: raise ex
CopyGivesUp(c) == c > MAX_RETRY

CopyIdle ==
    /\ cpc = "idle" /\ cargs = <<>> /\ count = 0
    /\ calls = <<>> /\ cret = None /\ cexc = None

\* The state after "count = 1", on entry to the while loop.
InitCopy ==
    /\ cpc = "try"
    /\ cargs \in CopyURIs \X CopyURIs
    /\ count = 1
    /\ calls = <<>>
    /\ cret = None
    /\ cexc = None

\* One pass of the loop in which vospace.client.copy returns.
CopyAttemptReturns ==
    /\ cpc = "try"
    /\ \E r \in CopyResults :
        /\ calls' = Append(calls, [args |-> cargs, ok |-> TRUE, out |-> r])
        /\ cret' = r
    /\ cpc' = "returned"
    /\ UNCHANGED <<cargs, count, cexc>>

\* One pass of the loop in which vospace.client.copy raises.
CopyAttemptRaises ==
    /\ cpc = "try"
    /\ \E e \in CopyErrors :
        /\ calls' = Append(calls, [args |-> cargs, ok |-> FALSE, out |-> e])
        /\ count' = CountAfterFailure(count)
        /\ IF CopyGivesUp(count')
              THEN cpc' = "raised" /\ cexc' = e
              ELSE cpc' = "try" /\ cexc' = cexc
    /\ UNCHANGED <<cargs, cret>>

(***************************************************************************)
(* match_lists(pos1, pos2, tolerance)                                      *)
(* Positions are points of an integer grid and indices are 0-based as in   *)
(* the code: At(pos, i) is pos[i].  Separations are compared through their *)
(* squares, which orders them as numpy.sqrt does.                          *)
(***************************************************************************)
MaxPts == 2
MaxTol == 2
\* Three points in a row and one above the middle: the middle one is at the
\* same distance from the three others, and the separations 1, sqrt(2), 2 differ.
Points == {<<0, 0>>, <<1, 0>>, <<2, 0>>, <<1, 1>>}

PosLists == UNION {[1 .. n -> Points] : n \in 0 .. MaxPts}

At(pos, i) == pos[i + 1]
Indices(pos) == 0 .. (Len(pos) - 1)

\* (pos[:, 0] - p[0]) ** 2 + (pos[:, 1] - p[1]) ** 2, for one member q of pos
Sep2(p, q) == (q[1] - p[1]) * (q[1] - p[1]) + (q[2] - p[2]) * (q[2] - p[2])

\* sep.min(), squared; numpy raises ValueError on an empty array
SepMin2(p, pos) ==
    CHOOSE m \in {Sep2(p, At(pos, k)) : k \in Indices(pos)} :
        \A k \in Indices(pos) : m <= Sep2(p, At(pos, k))

\* sep <= tolerance
WithinToleranceAlways(p, q, tol) == TRUE
WithinTolerance(p, q, tol) == tol >= 0 /\ Sep2(p, q) <= tol * tol

\* sep == sep.min()
IsClosest(p, q, pos) == Sep2(p, q) = SepMin2(p, pos)

\* numpy.all((sep <= tolerance, sep == sep.min()), axis=0), as the set of
\* the indices of pos where the condition is true
MatchCondition(p, pos, tol) ==
    {k \in Indices(pos) :
        WithinTolerance(p, At(pos, k), tol) /\ IsClosest(p, At(pos, k), pos)}

\* match_group_1 for pos1[i], match_group_2 for pos2[j]
MatchGroup1(p1, p2, tol, i) == MatchCondition(At(p1, i), p2, tol)
MatchGroup2(p1, p2, tol, j) == MatchCondition(At(p2, j), p1, tol)

\* if idx1 in match_group_2
InGroup2Always(p1, p2, tol, i, j) == TRUE
InGroup2(p1, p2, tol, i, j) == i \in MatchGroup2(p1, p2, tol, j)

\* The inner for loop over match_group_1 in index order, from index j on:
\* the first idx2 whose match_group_2 holds idx1 (the break) as <<idx2>>, or
\* <<>> when the loop ends without a match.
RECURSIVE InnerLoop(_, _, _, _, _)
InnerLoop(p1, p2, tol, i, j) ==
    IF j >= Len(p2) THEN <<>>
    ELSE IF j \in MatchGroup1(p1, p2, tol, i) /\ InGroup2(p1, p2, tol, i, j)
         THEN <<j>>
         ELSE InnerLoop(p1, p2, tol, i, j + 1)

\* numpy.ma.zeros(npts1) with match.mask = True
MaskedZeros(n) == [k \in 1 .. n |-> [data |-> 0, mask |-> TRUE]]

MatchIdle ==
    /\ mpc = "idle" /\ pos1 = <<>> /\ pos2 = <<>> /\ tolerance = 0
    /\ idx1 = 0 /\ match = <<>>

\* The state on entry to the outer for loop.
InitMatch ==
    /\ mpc = "loop"
    /\ pos1 \in PosLists
    /\ pos2 \in PosLists
    /\ tolerance \in 0 .. MaxTol
    /\ idx1 = 0
    /\ match = MaskedZeros(Len(pos1))

\* One pass of the outer for loop, the inner loop included.
MatchPass ==
    /\ mpc = "loop"
    /\ idx1 < Len(pos1)
    /\ Len(pos2) > 0
    /\ LET found == InnerLoop(pos1, pos2, tolerance, idx1, 0)
       IN  match' = IF found = <<>> THEN match
                    ELSE [match EXCEPT ![idx1 + 1] = [data |-> found[1], mask |-> FALSE]]
    /\ idx1' = idx1 + 1
    /\ UNCHANGED <<mpc, pos1, pos2, tolerance>>

\* sep.min() of an empty pos2 raises ValueError in the first pass.
MatchRaises ==
    /\ mpc = "loop"
    /\ idx1 < Len(pos1)
    /\ Len(pos2) = 0
    /\ mpc' = "raised"
    /\ UNCHANGED <<pos1, pos2, tolerance, idx1, match>>

\* return match
MatchReturns ==
    /\ mpc = "loop"
    /\ idx1 = Len(pos1)
    /\ mpc' = "returned"
    /\ UNCHANGED <<pos1, pos2, tolerance, idx1, match>>

(***************************************************************************)
(* reset_datasec(cutout, datasec, naxis1, naxis2)                          *)
(* A string is the sequence of its characters.                             *)
(***************************************************************************)
MaxPix == 3

Digits == <<"0", "1", "2", "3", "4", "5", "6", "7", "8", "9">>
DigitChars == {Digits[k] : k \in 1 .. 10}
DigitVal(c) == (CHOOSE k \in 1 .. 10 : Digits[k] = c) - 1

\* "{}".format(n) for an integer n
RECURSIVE FormatNat(_)
FormatNat(n) ==
    IF n < 10 THEN <<Digits[n + 1]>>
    ELSE FormatNat(n \div 10) \o <<Digits[(n % 10) + 1]>>

Format(n) == IF n < 0 THEN <<"-">> \o FormatNat(-n) ELSE FormatNat(n)

\* "[{}:{},{}:{}]".format(w[0], w[1], w[2], w[3])
FormatWindow(w) ==
    <<"[">> \o Format(w[1]) \o <<":">> \o Format(w[2]) \o <<",">>
            \o Format(w[3]) \o <<":">> \o Format(w[4]) \o <<"]">>

\* s.startswith(old, i), with 1-based i
StartsWithAt(s, old, i) ==
    /\ i + Len(old) - 1 <= Len(s)
    /\ \A k \in 1 .. Len(old) : s[i + k - 1] = old[k]

\* s.replace(old, new) for a non-empty old: every occurrence, left to right
RECURSIVE ReplaceFrom(_, _, _, _)
ReplaceFrom(s, old, new, i) ==
    IF i > Len(s) THEN <<>>
    ELSE IF StartsWithAt(s, old, i)
         THEN new \o ReplaceFrom(s, old, new, i + Len(old))
         ELSE <<s[i]>> \o ReplaceFrom(s, old, new, i + 1)

Replace(s, old, new) == ReplaceFrom(s, old, new, 1)

\* The regular expression ([-+]?[*\d]+?)[:,\]]+ of datasec_to_list
SignChars == {"-", "+"}
BodyChars == DigitChars \cup {"*"}
EndChars == {":", ",", "]"}

\* The first index from i on that is not in cs (Len(s) + 1 at the end).
RECURSIVE SkipWhile(_, _, _)
SkipWhile(s, cs, i) ==
    IF i <= Len(s) /\ s[i] \in cs THEN SkipWhile(s, cs, i + 1) ELSE i

\* A match of the expression that starts at i: [ok, group, next].  The lazy
\* [*\d]+? has to grow until a character of [:,\]] follows, and the two sets
\* are disjoint, so it takes the whole run of [*\d] or the match fails.
RegexMatchAt(s, i) ==
    LET b == IF s[i] \in SignChars THEN i + 1 ELSE i
        e == SkipWhile(s, BodyChars, b)
    IN  IF e > b /\ e <= Len(s) /\ s[e] \in EndChars
        THEN [ok |-> TRUE, group |-> SubSeq(s, i, e - 1),
              next |-> SkipWhile(s, EndChars, e)]
        ELSE [ok |-> FALSE, group |-> <<>>, next |-> i + 1]

\* re.findall(r"([-+]?[*\d]+?)[:,\]]+", s), from index i on
RECURSIVE FindAllFrom(_, _)
FindAllFrom(s, i) ==
    IF i > Len(s) THEN <<>>
    ELSE LET m == RegexMatchAt(s, i)
         IN  IF m.ok THEN <<m.group>> \o FindAllFrom(s, m.next)
             ELSE FindAllFrom(s, m.next)

\* int(x) for a group of the expression: a ValueError when it holds a "*"
IsIntLiteral(x) ==
    LET b == IF x[1] \in SignChars THEN 2 ELSE 1
    IN  /\ b <= Len(x)
        /\ \A k \in b .. Len(x) : x[k] \in DigitChars

RECURSIVE NatOf(_)
NatOf(x) ==
    IF Len(x) = 0 THEN 0
    ELSE 10 * NatOf(SubSeq(x, 1, Len(x) - 1)) + DigitVal(x[Len(x)])

IntOf(x) ==
    IF x[1] = "-" THEN 0 - NatOf(Tail(x))
    ELSE IF x[1] = "+" THEN NatOf(Tail(x))
    ELSE NatOf(x)

\* datasec_to_list(datasec): [ok, list]; ok is FALSE when int() raises
datasec_to_list(s) ==
    LET groups == FindAllFrom(s, 1)
    IN  IF \A k \in 1 .. Len(groups) : IsIntLiteral(groups[k])
        THEN [ok |-> TRUE, list |-> [k \in 1 .. Len(groups) |-> IntOf(groups[k])]]
        ELSE [ok |-> FALSE, list |-> <<>>]

Str(text) == [kind |-> "str", val |-> text]
IntList(l) == [kind |-> "list", val |-> l]
Raise(e) == [kind |-> "raise", val |-> e]

Max(a, b) == IF a >= b THEN a ELSE b
Min(a, b) == IF a <= b THEN a ELSE b

\* The four replace calls on the cutout string.
NormaliseCutout(c, n1, n2) ==
    LET c0 == Replace(c, <<" ">>, <<>>)
        c1 == Replace(c0, <<"[", "-", "*", ",">>, Format(n1) \o <<":", "1", ",">>)
        c2 == Replace(c1, <<",", "-", "*", "]">>, <<",">> \o Format(n2) \o <<":", "1", "]">>)
        c3 == Replace(c2, <<"[", "*", ",">>, <<"[", "1", ":">> \o Format(n1) \o <<",">>)
    IN  Replace(c3, <<",", "*", "]">>, <<",", "1", ":">> \o Format(n1) \o <<"]">>)

\* if len(cutout) == 5: cutout = cutout[1:]
DropExtension(c) == IF Len(c) = 5 THEN Tail(c) ELSE c

\* -ve integer offsets indicate offset from the end of array.
FromEnd(c, n1, n2) ==
    [k \in 1 .. Len(c) |->
        IF k \in {1, 2} /\ c[k] < 0 THEN n1 - c[k] + 1
        ELSE IF k \in {3, 4} /\ c[k] < 0 THEN n2 - c[k] + 1
        ELSE c[k]]

\* The two conditional re-assignments of cutout and datasec, as <<cutout, datasec>>.
FlipX(c, d, n1) ==
    <<<<n1 - c[1] + 1, n1 - c[2] + 1, c[3], c[4]>>,
      <<n1 - d[2] + 1, n1 - d[1] + 1, d[3], d[4]>>>>

FlopY(c, d, n2) ==
    <<<<c[1], c[2], n2 - c[3] + 1, n2 - c[4] + 1>>,
      <<d[1], d[2], n2 - d[4] + 1, n2 - d[3] + 1>>>>

\* The last assignment of datasec.
ShiftNoClamp(c, d, n1, n2) ==
    <<d[1] - c[1] + 1, d[2] - c[1] + 1, d[3] - c[3] + 1, d[4] - c[3] + 1>>
ShiftAndClamp(c, d, n1, n2) ==
    <<Max(d[1] - c[1] + 1, 1), Min(d[2] - c[1] + 1, n1),
      Max(d[3] - c[3] + 1, 1), Min(d[4] - c[3] + 1, n2)>>

\* The code after the negative offsets are resolved: flip, flop and shift.
FlipFlopShift(c, d, n1, n2) ==
    LET f1 == IF c[1] > c[2] THEN FlipX(c, d, n1) ELSE <<c, d>>
        f2 == IF c[3] > c[4] THEN FlopY(f1[1], f1[2], n2) ELSE f1
    IN  Str(FormatWindow(ShiftAndClamp(f2[1], f2[2], n1, n2)))

\* The code after both strings are parsed; an index past the end of a list
\* raises IndexError.
ResetParsed(c, d, n1, n2) ==
    IF Len(c) < 4 \/ Len(d) < 4 THEN Raise("IndexError")
    ELSE FlipFlopShift(FromEnd(c, n1, n2), d, n1, n2)

\* reset_datasec: what it returns (a string, or the list datasec was parsed
\* to) or that it raises.
reset_datasec(c, ds, n1, n2) ==
    IF c = None \/ c = <<"[", "*", ",", "*", "]">> THEN Str(ds)
    ELSE
    LET d0 == datasec_to_list(ds)
        c0 == datasec_to_list(NormaliseCutout(c, n1, n2))
    IN  IF ~d0.ok THEN Str(ds)
        ELSE IF ~c0.ok THEN IntList(d0.list)
        ELSE ResetParsed(DropExtension(c0.list), d0.list, n1, n2)

\* The image sizes: one smaller than the largest pixel drawn, one of two digits.
NaxisVals == {2, 10}
\* The pixel numbers the strings are written from.
CutVals == 1 .. MaxPix
SecVals == 1 .. MaxPix
CutWindows == CutVals \X CutVals \X CutVals \X CutVals
SecWindows == {w \in SecVals \X SecVals \X SecVals \X SecVals : w[1] <= w[2] /\ w[3] <= w[4]}

\* Cutouts that are not of the form [a:b,c:d] with positive numbers.
OtherCutouts ==
    { None,
      <<"[", "*", ",", "*", "]">>,
      <<"[", "-", "*", ",", "*", "]">>,
      <<"[", "*", ",", "-", "*", "]">>,
      <<"[", "-", "*", ",", "-", "*", "]">>,
      <<"[", "1", ":", "2", ",", "*", "]">>,
      <<"[", "1", "]", "[", "2", ":", "3", ",", "1", ":", "2", "]">>,
      <<"[", "-", "1", ":", "2", ",", " ", "1", ":", "2", "]">>,
      <<"[", "*", ":", "2", ",", "1", ":", "2", "]">>,
      <<"[", "1", "]">> }

DatasecIdle ==
    /\ dpc = "idle" /\ cutout = None /\ datasec = <<>> /\ naxis1 = 0 /\ naxis2 = 0
    /\ cutwin = <<>> /\ secwin = <<>> /\ dresult = None

\* The arguments of one call.
InitDatasec ==
    /\ dpc = "call"
    /\ naxis1 \in NaxisVals
    /\ naxis2 \in NaxisVals
    /\ secwin \in SecWindows
    /\ datasec = FormatWindow(secwin)
    /\ \/ cutwin \in CutWindows /\ cutout = FormatWindow(cutwin)
       \/ cutwin = <<>> /\ cutout \in OtherCutouts
    /\ dresult = None

ResetDatasec ==
    /\ dpc = "call"
    /\ dresult' = reset_datasec(cutout, datasec, naxis1, naxis2)
    /\ dpc' = "done"
    /\ UNCHANGED <<cutout, datasec, naxis1, naxis2, cutwin, secwin>>

(***************************************************************************)
(* SyncingVOFile                                                           *)
(* A file is [exists, data]; its data is a sequence of chunks.             *)
(***************************************************************************)
MaxWritten == 2
MaxCalls == 4

Chunks == {"a", "b"}
Absent == [exists |-> FALSE, data |-> <<>>]
File(c) == [exists |-> TRUE, data |-> c]

VosProtocol == <<"v", "o", "s", ":">>
URIs == {VosProtocol \o <<"f">>, <<"v", "o", "s">>, <<"/", "f">>}

\* The files VOSpace and the temp directory can hold before the constructor.
VosFilesAtStart == {Absent, File(<<>>), File(<<"a">>), File(<<"b", "a">>)}
LocalFilesAtStart == {Absent, File(<<"b">>)}

Call(name, ok) == [name |-> name, ok |-> ok]

\* uri.startswith("vos:")
IsVosURIAlways(u) == TRUE
IsVosURI(u) == StartsWithAt(u, VosProtocol, 1)

\* exists(uri): vospace.access(uri)
Exists(f) == f.exists

\* The local file once the constructor has looked at VOSpace: the download
\* of the VOSpace file, or no file when a local file was left over.
KeepStale(vos, local) == IF Exists(vos) THEN File(vos.data) ELSE local
LocalBeforeOpen(vos, local) == IF Exists(vos) THEN File(vos.data) ELSE Absent

\* open(local_filename, "a+b") creates the file when there is none.
OpenAppend(local) == IF local.exists THEN local ELSE File(<<>>)

\* local_filehandle.flush(), and the flush a seek does: the buffer goes to
\* the end of the file on disk.
FlushedNothing(local, buf) == local
Flushed(local, buf) == File(local.data \o buf)

\* vosclient.copy(local_filename, uri) when it succeeds
UploadedNothing(vos, local) == vos
Uploaded(vos, local) == File(local.data)

FileIdle ==
    /\ fpc = "idle" /\ uri = <<>> /\ vosFile = Absent /\ localFile = Absent
    /\ buffer = <<>> /\ vosCalls = <<>> /\ lastOp = "none" /\ lastRead = <<>>
    /\ atOpen = Absent /\ leftOver = Absent /\ written = <<>>

\* The state before the constructor is called.
InitFile ==
    /\ fpc = "new"
    /\ uri \in URIs
    /\ vosFile \in VosFilesAtStart
    /\ localFile \in LocalFilesAtStart
    /\ buffer = <<>>
    /\ vosCalls = <<>>
    /\ lastOp = "none"
    /\ lastRead = <<>>
    /\ atOpen = vosFile
    /\ leftOver = localFile
    /\ written = <<>>

\* __init__ with a URI that does not start with "vos:".
ConstructInvalidURI ==
    /\ fpc = "new"
    /\ ~IsVosURI(uri)
    /\ fpc' = "failed"
    /\ lastOp' = "InvalidURIError"
    /\ UNCHANGED <<uri, vosFile, localFile, buffer, vosCalls, lastRead, atOpen, leftOver, written>>

\* __init__ that returns: the download or the removal, then the open.
Construct ==
    /\ fpc = "new"
    /\ IsVosURI(uri)
    /\ vosCalls' = IF Exists(vosFile)
                       THEN <<Call("access", TRUE), Call("copy", TRUE)>>
                       ELSE <<Call("access", TRUE)>>
    /\ localFile' = OpenAppend(LocalBeforeOpen(vosFile, localFile))
    /\ fpc' = "open"
    /\ lastOp' = "init"
    /\ UNCHANGED <<uri, vosFile, buffer, lastRead, atOpen, leftOver, written>>

\* __init__ in which the download raises.
ConstructCopyFails ==
    /\ fpc = "new"
    /\ IsVosURI(uri)
    /\ Exists(vosFile)
    /\ vosCalls' = <<Call("access", TRUE), Call("copy", FALSE)>>
    /\ fpc' = "failed"
    /\ lastOp' = "raise"
    /\ UNCHANGED <<uri, vosFile, localFile, buffer, lastRead, atOpen, leftOver, written>>

\* read(): seek(0), which writes the buffer out, then the whole file.
Read ==
    /\ fpc = "open"
    /\ localFile' = Flushed(localFile, buffer)
    /\ buffer' = <<>>
    /\ lastRead' = <<localFile'.data>>
    /\ lastOp' = "read"
    /\ UNCHANGED <<fpc, uri, vosFile, vosCalls, atOpen, leftOver, written>>

\* A write that also sends the file to VOSpace.
WriteThrough ==
    /\ fpc = "open"
    /\ Len(written) < MaxWritten
    /\ Len(vosCalls) < MaxCalls
    /\ \E c \in Chunks :
        /\ written' = Append(written, c)
        /\ localFile' = Flushed(localFile, Append(buffer, c))
        /\ vosFile' = File(localFile'.data)
    /\ buffer' = <<>>
    /\ vosCalls' = Append(vosCalls, Call("copy", TRUE))
    /\ lastOp' = "write"
    /\ UNCHANGED <<fpc, uri, lastRead, atOpen, leftOver>>

\* write(content): the content goes to the handle's buffer, which the
\* handle may write to disk at once or keep.
Write ==
    /\ fpc = "open"
    /\ Len(written) < MaxWritten
    /\ \E c \in Chunks, keep \in BOOLEAN :
        /\ written' = Append(written, c)
        /\ IF keep
              THEN buffer' = Append(buffer, c) /\ localFile' = localFile
              ELSE buffer' = <<>> /\ localFile' = Flushed(localFile, Append(buffer, c))
    /\ lastOp' = "write"
    /\ UNCHANGED <<fpc, uri, vosFile, vosCalls, lastRead, atOpen, leftOver>>

\* seek(offset): pass
Seek ==
    /\ fpc \in {"open", "closed"}
    /\ lastOp' = "seek"
    /\ UNCHANGED <<fpc, uri, vosFile, localFile, buffer, vosCalls, lastRead, atOpen, leftOver, written>>

\* The two statements of flush(), the copy succeeding or raising.
FlushBody(ok) ==
    /\ localFile' = Flushed(localFile, buffer)
    /\ buffer' = <<>>
    /\ vosCalls' = Append(vosCalls, Call("copy", ok))
    /\ vosFile' = IF ok THEN Uploaded(vosFile, localFile') ELSE vosFile

Flush ==
    /\ fpc = "open"
    /\ Len(vosCalls) < MaxCalls
    /\ \E ok \in BOOLEAN :
        /\ FlushBody(ok)
        /\ lastOp' = IF ok THEN "flush" ELSE "raise"
    /\ UNCHANGED <<fpc, uri, lastRead, atOpen, leftOver, written>>

\* close(): flush(), then local_filehandle.close() when flush returned.
Close ==
    /\ fpc = "open"
    /\ Len(vosCalls) < MaxCalls
    /\ \E ok \in BOOLEAN :
        /\ FlushBody(ok)
        /\ lastOp' = IF ok THEN "close" ELSE "raise"
        /\ fpc' = IF ok THEN "closed" ELSE "open"
    /\ UNCHANGED <<uri, lastRead, atOpen, leftOver, written>>

\* read, write, flush or close on the closed handle raises ValueError
\* before anything else happens.
UseClosed ==
    /\ fpc = "closed"
    /\ lastOp' = "raise"
    /\ UNCHANGED <<fpc, uri, vosFile, localFile, buffer, vosCalls, lastRead, atOpen, leftOver, written>>

(***************************************************************************)
(* get_property, has_property and set_property on one property of one      *)
(* VOSpace node, with another client that changes the property.  The       *)
(* client caches the node it fetched; a node is [cached, present, val]:    *)
(* whether there is one, whether its props hold the property, and the      *)
(* value there (None once cleared).                                        *)
(***************************************************************************)
PropValues == {"success", "failed"}
Packages == {"daomop", "ossos"}

NoNode == [cached |-> FALSE, present |-> FALSE, val |-> None]
Node(present, val) == [cached |-> TRUE, present |-> present, val |-> val]

\* The node as VOSpace has it.
Fetched(server) == Node(server # None, server)

\* get_node(node_uri): the cached node when there is one
GetNode(cache, server) == IF cache.cached THEN cache ELSE Fetched(server)

\* get_node(node_uri, force=True): always the node as VOSpace has it
GetNodeCachedFirst(cache, server) == IF cache.cached THEN cache ELSE Fetched(server)
GetNodeForProperty(cache, server) == Fetched(server)

\* if property_uri not in node.props: return None; return node.props[...]
PropertyOf(node) == IF node.present THEN node.val ELSE None

\* Whether set_property clears first: daomop only when the node it got
\* holds the property, ossos always.
ClearsFirst(package, node) == package = "ossos" \/ node.present

Stale(cache, server) == cache.cached /\ cache # Fetched(server)

PropsIdle ==
    /\ ppc = "idle" /\ impl = None /\ serverProp = None /\ nodeCache = NoNode
    /\ sent = <<>> /\ newVal = None /\ hadValue = FALSE /\ wasStale = FALSE
    /\ pop = "none" /\ lastRet = None

\* Before any call: the node is not cached yet.
InitProps ==
    /\ ppc = "ready"
    /\ impl \in Packages
    /\ serverProp \in PropValues \cup {None}
    /\ nodeCache = NoNode
    /\ sent = <<>>
    /\ newVal = None
    /\ hadValue = FALSE
    /\ wasStale = FALSE
    /\ pop = "none"
    /\ lastRet = None

\* get_property(node_uri, property_name)
GetProperty ==
    /\ ppc = "ready"
    /\ nodeCache' = GetNodeForProperty(nodeCache, serverProp)
    /\ lastRet' = PropertyOf(nodeCache')
    /\ wasStale' = Stale(nodeCache, serverProp)
    /\ pop' = "get_property"
    /\ UNCHANGED <<ppc, impl, serverProp, sent, newVal, hadValue>>

\* has_property(node_uri, property_name)
HasProperty ==
    /\ ppc = "ready"
    /\ nodeCache' = GetNodeForProperty(nodeCache, serverProp)
    /\ lastRet' = (PropertyOf(nodeCache') # None)
    /\ wasStale' = Stale(nodeCache, serverProp)
    /\ pop' = "has_property"
    /\ UNCHANGED <<ppc, impl, serverProp, sent, newVal, hadValue>>

\* set_property up to and including the clearing add_props, when it is made.
SetPropertyClear ==
    /\ ppc = "ready"
    /\ \E v \in PropValues : newVal' = v
    /\ hadValue' = (serverProp # None)
    /\ wasStale' = Stale(nodeCache, serverProp)
    /\ LET node == GetNode(nodeCache, serverProp)
       IN  IF ClearsFirst(impl, node)
           THEN /\ nodeCache' = Node(TRUE, None)
                /\ sent' = <<None>>
                /\ serverProp' = None
           ELSE /\ nodeCache' = node
                /\ sent' = <<>>
                /\ serverProp' = serverProp
    /\ ppc' = "setting"
    /\ pop' = "none"
    /\ UNCHANGED <<impl, lastRet>>

\* The rest of set_property: the value is put in the node and sent.  The
\* client may keep the node in its cache or drop it after add_props.
SetPropertySend ==
    /\ ppc = "setting"
    /\ sent' = Append(sent, newVal)
    /\ serverProp' = newVal
    /\ \E keeps \in BOOLEAN :
        nodeCache' = IF keeps THEN Node(TRUE, newVal) ELSE NoNode
    /\ ppc' = "ready"
    /\ pop' = "set_property"
    /\ UNCHANGED <<impl, newVal, hadValue, wasStale, lastRet>>

\* Another client sets or deletes the property.
OtherClientSets ==
    /\ ppc \in {"ready", "setting"}
    /\ \E v \in PropValues \cup {None} :
        /\ v # serverProp
        /\ serverProp' = v
    /\ pop' = "other"
    /\ UNCHANGED <<ppc, impl, nodeCache, sent, newVal, hadValue, wasStale, lastRet>>

(***************************************************************************)
(* phot and phot_mag                                                       *)
(* What IRAF measured is given: the lines of pdump_out.  A value is a      *)
(* number of hundredths.                                                   *)
(***************************************************************************)
MaxLines == 2

\* hdu['order']
Order == <<"X", "Y", "MAG", "MERR", "ID", "XSHIFT", "YSHIFT", "LID">>
Columns == {Order[k] : k \in 1 .. Len(Order)}

\* Lines pdump can print for a source, and one cut short.
PdumpLines ==
    { <<56000, 40660, 2477, 29, 1, -6, 9, 1>>,
      <<56006, 40651, 2464, 22, 1, 0, 0, 1>>,
      <<12050, 33010, 2105, 4, 2, 12, -3, 2>>,
      <<56000, 40660>> }
ApcorValues == {0, 30}

\* hdu['data'][col] = [] for every column
EmptyData == [col \in Columns |-> <<>>]

\* The value appended for column k of a line: values.pop(0), with apcor
\* taken off the MAG value first.
ColumnValue(line, k, ac) == IF Order[k] = "MAG" THEN line[k] - ac ELSE line[k]

\* The inner loop over hdu['order'] for one line.
WithLine(data, line, ac) ==
    [col \in Columns |->
        LET k == CHOOSE i \in 1 .. Len(Order) : Order[i] = col
        IN  Append(data[col], ColumnValue(line, k, ac))]

Float(x) == [kind |-> "float", val |-> <<x>>]
Tuple(t) == [kind |-> "tuple", val |-> t]

\* return hdu["data"]["MAG"][0]
PhotMagOf(data) == Float(data["MAG"][1])

PhotIdle ==
    /\ hpc = "idle" /\ pdump_out = <<>> /\ apcor = 0 /\ lineno = 0
    /\ hdata = <<>> /\ hresult = None

\* phot on entry to the loop over pdump_out.
InitPhot ==
    /\ hpc = "lines"
    /\ pdump_out \in UNION {[1 .. n -> PdumpLines] : n \in 0 .. MaxLines}
    /\ apcor \in ApcorValues
    /\ lineno = 1
    /\ hdata = EmptyData
    /\ hresult = None

\* One pass of the loop over pdump_out.
PhotLine ==
    /\ hpc = "lines"
    /\ lineno <= Len(pdump_out)
    /\ Len(pdump_out[lineno]) >= Len(Order)
    /\ hdata' = WithLine(hdata, pdump_out[lineno], apcor)
    /\ lineno' = lineno + 1
    /\ UNCHANGED <<hpc, pdump_out, apcor, hresult>>

\* values.pop(0) on a line with too few values raises IndexError.
PhotLineRaises ==
    /\ hpc = "lines"
    /\ lineno <= Len(pdump_out)
    /\ Len(pdump_out[lineno]) < Len(Order)
    /\ hpc' = "raised"
    /\ UNCHANGED <<pdump_out, apcor, lineno, hdata, hresult>>

\* phot returns hdu and phot_mag returns from it.
PhotMagReturns ==
    /\ hpc = "lines"
    /\ lineno > Len(pdump_out)
    /\ Len(hdata["MAG"]) > 0
    /\ hresult' = PhotMagOf(hdata)
    /\ hpc' = "returned"
    /\ UNCHANGED <<pdump_out, apcor, lineno, hdata>>

\* phot returns hdu with no line in it: [0] raises IndexError.
PhotMagRaises ==
    /\ hpc = "lines"
    /\ lineno > Len(pdump_out)
    /\ Len(hdata["MAG"]) = 0
    /\ hpc' = "raised"
    /\ UNCHANGED <<pdump_out, apcor, lineno, hdata, hresult>>

(***************************************************************************)
(* Specifications                                                          *)
(***************************************************************************)
NextCopy ==
    \/ CopyAttemptReturns /\ UNCHANGED <<mvars, dvars, fvars, pvars, hvars>>
    \/ CopyAttemptRaises /\ UNCHANGED <<mvars, dvars, fvars, pvars, hvars>>

\* copy runs and the other pieces are idle.
StartCopy == InitCopy /\ MatchIdle /\ DatasecIdle /\ FileIdle /\ PropsIdle /\ PhotIdle

SpecCopy == StartCopy /\ [][NextCopy]_vars

NextMatch ==
    \/ MatchPass /\ UNCHANGED <<cvars, dvars, fvars, pvars, hvars>>
    \/ MatchRaises /\ UNCHANGED <<cvars, dvars, fvars, pvars, hvars>>
    \/ MatchReturns /\ UNCHANGED <<cvars, dvars, fvars, pvars, hvars>>

\* match_lists runs and the other pieces are idle.
StartMatch == InitMatch /\ CopyIdle /\ DatasecIdle /\ FileIdle /\ PropsIdle /\ PhotIdle

SpecMatch == StartMatch /\ [][NextMatch]_vars

NextDatasec ==
    \/ ResetDatasec /\ UNCHANGED <<cvars, mvars, fvars, pvars, hvars>>

\* reset_datasec runs and the other pieces are idle.
StartDatasec == InitDatasec /\ CopyIdle /\ MatchIdle /\ FileIdle /\ PropsIdle /\ PhotIdle

SpecDatasec == StartDatasec /\ [][NextDatasec]_vars

NextFile ==
    \/ ConstructInvalidURI /\ UNCHANGED <<cvars, mvars, dvars, pvars, hvars>>
    \/ Construct /\ UNCHANGED <<cvars, mvars, dvars, pvars, hvars>>
    \/ ConstructCopyFails /\ UNCHANGED <<cvars, mvars, dvars, pvars, hvars>>
    \/ Read /\ UNCHANGED <<cvars, mvars, dvars, pvars, hvars>>
    \/ Write /\ UNCHANGED <<cvars, mvars, dvars, pvars, hvars>>
    \/ Seek /\ UNCHANGED <<cvars, mvars, dvars, pvars, hvars>>
    \/ Flush /\ UNCHANGED <<cvars, mvars, dvars, pvars, hvars>>
    \/ Close /\ UNCHANGED <<cvars, mvars, dvars, pvars, hvars>>
    \/ UseClosed /\ UNCHANGED <<cvars, mvars, dvars, pvars, hvars>>

\* A SyncingVOFile runs and the other pieces are idle.
StartFile == InitFile /\ CopyIdle /\ MatchIdle /\ DatasecIdle /\ PropsIdle /\ PhotIdle

SpecFile == StartFile /\ [][NextFile]_vars

NextProps ==
    \/ GetProperty /\ UNCHANGED <<cvars, mvars, dvars, fvars, hvars>>
    \/ HasProperty /\ UNCHANGED <<cvars, mvars, dvars, fvars, hvars>>
    \/ SetPropertyClear /\ UNCHANGED <<cvars, mvars, dvars, fvars, hvars>>
    \/ SetPropertySend /\ UNCHANGED <<cvars, mvars, dvars, fvars, hvars>>
    \/ OtherClientSets /\ UNCHANGED <<cvars, mvars, dvars, fvars, hvars>>

\* The property functions run and the other pieces are idle.
StartProps == InitProps /\ CopyIdle /\ MatchIdle /\ DatasecIdle /\ FileIdle /\ PhotIdle

SpecProps == StartProps /\ [][NextProps]_vars

NextPhot ==
    \/ PhotLine /\ UNCHANGED <<cvars, mvars, dvars, fvars, pvars>>
    \/ PhotLineRaises /\ UNCHANGED <<cvars, mvars, dvars, fvars, pvars>>
    \/ PhotMagReturns /\ UNCHANGED <<cvars, mvars, dvars, fvars, pvars>>
    \/ PhotMagRaises /\ UNCHANGED <<cvars, mvars, dvars, fvars, pvars>>

\* phot_mag runs and the other pieces are idle.
StartPhot ==
    InitPhot /\ CopyIdle /\ MatchIdle /\ DatasecIdle /\ FileIdle /\ PropsIdle

SpecPhot == StartPhot /\ [][NextPhot]_vars

\* Any one of the pieces runs.
Init ==
    StartCopy \/ StartMatch \/ StartDatasec \/ StartFile \/ StartProps \/ StartPhot

Next == NextCopy \/ NextMatch \/ NextDatasec \/ NextFile \/ NextProps \/ NextPhot

Spec == Init /\ [][Next]_vars

(***************************************************************************)
(* Properties of copy                                                      *)
(***************************************************************************)
AllFailed(cs) == \A k \in 1 .. Len(cs) : ~cs[k].ok

\* C2: when the client's copy keeps failing, copy raises only after
\* MAX_RETRY + 1 attempts: the first one and MAX_RETRY retries.
CopyRaisesAfterMaxRetryRetries ==
    cpc = "raised" => Len(calls) = MAX_RETRY + 1

\* C3: copy makes at most MAX_RETRY + 1 attempts; while it loops every attempt
\* so far has failed and the bound is not yet used up; it returns the result
\* of its first successful attempt, which is its last attempt; it raises the
\* error of its last attempt, and only when every attempt has failed.
CopyLoopIsBounded ==
    /\ Len(calls) <= MAX_RETRY + 1
    /\ cpc = "try" => AllFailed(calls) /\ Len(calls) < MAX_RETRY + 1
    /\ cpc = "returned" =>
          /\ Len(calls) >= 1
          /\ calls[Len(calls)].ok
          /\ cret = calls[Len(calls)].out
          /\ AllFailed(SubSeq(calls, 1, Len(calls) - 1))
    /\ cpc = "raised" =>
          /\ Len(calls) >= 1
          /\ AllFailed(calls)
          /\ cexc = calls[Len(calls)].out

\* copy has given up and raised, after attempts that failed with different
\* errors.
CopyLoopIsBoundedWitness ==
    /\ cpc = "raised"
    /\ Len(calls) > 1
    /\ \E k \in 1 .. Len(calls) : calls[k].out # cexc

(***************************************************************************)
(* Properties of match_lists                                               *)
(***************************************************************************)
Unmasked == {i \in Indices(pos1) : ~At(match, i).mask}
MatchOf(i) == At(match, i).data

\* C1: in the returned array no pos2 index is assigned to two different
\* pos1 entries.
MatchIsUnique ==
    mpc = "returned" =>
        \A i, k \in Unmasked : i # k => MatchOf(i) # MatchOf(k)

\* C4: an unmasked entry names a pos2 position within the tolerance of its
\* pos1 position, and in the returned array an entry with no pos2 position
\* within the tolerance is masked.
MatchIsWithinTolerance ==
    /\ \A i \in Unmasked :
          /\ MatchOf(i) \in Indices(pos2)
          /\ Sep2(At(pos1, i), At(pos2, MatchOf(i))) <= tolerance * tolerance
    /\ mpc = "returned" =>
          \A i \in Indices(pos1) :
              (\A j \in Indices(pos2) :
                   Sep2(At(pos1, i), At(pos2, j)) > tolerance * tolerance)
              => At(match, i).mask

\* The returned array has a match, and a masked entry that has no pos2
\* position within the tolerance while a pos2 position exists.
MatchIsWithinToleranceWitness ==
    /\ mpc = "returned"
    /\ Unmasked # {}
    /\ \E i \in Indices(pos1) :
          /\ At(match, i).mask
          /\ \A j \in Indices(pos2) :
                Sep2(At(pos1, i), At(pos2, j)) > tolerance * tolerance

\* C5: whenever pos2 index j is assigned to pos1[i], no member of pos2 is
\* strictly closer to pos1[i] than pos2[j] and no member of pos1 is strictly
\* closer to pos2[j] than pos1[i].
MatchIsBidirectionalNearest ==
    \A i \in Unmasked :
        /\ MatchOf(i) \in Indices(pos2)
        /\ \A j \in Indices(pos2) :
              Sep2(At(pos1, i), At(pos2, MatchOf(i))) <= Sep2(At(pos1, i), At(pos2, j))
        /\ \A k \in Indices(pos1) :
              Sep2(At(pos2, MatchOf(i)), At(pos1, i)) <= Sep2(At(pos2, MatchOf(i)), At(pos1, k))

\* The returned array has a match between lists of two positions each, and
\* an entry left masked although a pos2 position is within its tolerance:
\* that position is closer to the other pos1 entry.
MatchIsBidirectionalNearestWitness ==
    /\ mpc = "returned"
    /\ Len(pos1) > 1 /\ Len(pos2) > 1
    /\ Unmasked # {}
    /\ \E i \in Indices(pos1) :
          /\ At(match, i).mask
          /\ \E j \in Indices(pos2) :
                Sep2(At(pos1, i), At(pos2, j)) <= tolerance * tolerance

(***************************************************************************)
(* Properties of reset_datasec                                             *)
(***************************************************************************)
\* The cutout was written as [a:b,c:d] with 1 <= a <= b and 1 <= c <= d.
PlainCutout ==
    /\ cutwin # <<>>
    /\ 1 <= cutwin[1] /\ cutwin[1] <= cutwin[2]
    /\ 1 <= cutwin[3] /\ cutwin[3] <= cutwin[4]

\* The datasec shifted by the origin of a plain cutout and clamped.
Remapped ==
    <<Max(secwin[1] - cutwin[1] + 1, 1), Min(secwin[2] - cutwin[1] + 1, naxis1),
      Max(secwin[3] - cutwin[3] + 1, 1), Min(secwin[4] - cutwin[3] + 1, naxis2)>>

Unchanged ==
    (cutout = None \/ cutout = <<"[", "*", ",", "*", "]">>) => dresult = Str(datasec)

\* The numbers in the string reset_datasec returned.
Returned == datasec_to_list(dresult.val).list

\* C6 as stated: for a plain cutout the result is the datasec shifted by the
\* cutout's origin and clamped, and none of its four bounds is below 1 or
\* above naxis1 / naxis2; for cutout None or "[*,*]" it is the datasec.
DatasecRemappedWithinImage ==
    dpc = "done" =>
        /\ PlainCutout =>
              /\ dresult = Str(FormatWindow(Remapped))
              /\ \A k \in {1, 2} : 1 <= Returned[k] /\ Returned[k] <= naxis1
              /\ \A k \in {3, 4} : 1 <= Returned[k] /\ Returned[k] <= naxis2
        /\ Unchanged

\* C6 as amended: for a plain cutout the result is the datasec shifted by the
\* cutout's origin and clamped; its lower bounds are at least 1 and its upper
\* bounds at most naxis1 / naxis2; for cutout None or "[*,*]" it is the
\* datasec.
DatasecRemapped ==
    dpc = "done" =>
        /\ PlainCutout =>
              /\ dresult = Str(FormatWindow(Remapped))
              /\ 1 <= Returned[1] /\ Returned[2] <= naxis1
              /\ 1 <= Returned[3] /\ Returned[4] <= naxis2
        /\ Unchanged

\* A plain cutout away from the origin in x, whose result is clamped from
\* below in x and from above in y.
DatasecRemappedWitness ==
    /\ dpc = "done"
    /\ PlainCutout
    /\ cutwin[1] > 1
    /\ secwin[1] - cutwin[1] + 1 < 1
    /\ secwin[4] - cutwin[3] + 1 > naxis2
    /\ dresult.kind = "str"

(***************************************************************************)
(* Properties of SyncingVOFile                                             *)
(***************************************************************************)
\* The content the file had when it was opened, then every written content.
FullContent == (IF atOpen.exists THEN atOpen.data ELSE <<>>) \o written

\* The calls after the constructor's own that uploaded the file.
Uploads == {k \in 1 .. Len(vosCalls) :
               /\ k > (IF atOpen.exists THEN 2 ELSE 1)
               /\ vosCalls[k] = Call("copy", TRUE)}

\* C7: a write, read or seek call leaves the VOSpace file unchanged and
\* makes no call to the VOSpace client.
WritesStayLocal ==
    [][lastOp' \in {"write", "read", "seek"} =>
          vosFile' = vosFile /\ vosCalls' = vosCalls]_vars

\* A write after a flush: VOSpace holds the file as flushed, without the
\* content just written.
WritesStayLocalWitness ==
    /\ lastOp = "write"
    /\ Uploads # {}
    /\ vosFile.exists
    /\ vosFile.data # FullContent

\* C8: read() returns the content the file had when it was opened followed
\* by every written content in the order of the writes.
ReadReturnsFullContent ==
    lastOp = "read" => lastRead = <<FullContent>>

\* A read of a file that had content when opened, after writes of which
\* VOSpace does not have all.
ReadReturnsFullContentWitness ==
    /\ lastOp = "read"
    /\ atOpen.exists /\ atOpen.data # <<>>
    /\ Len(written) > 1
    /\ vosFile.data # FullContent
    /\ lastRead = <<FullContent>>

\* C9: when no file exists at the URI, VOSpace has no file there until a
\* flush or close has uploaded it; after every flush or close that returns,
\* the VOSpace file holds the full local content.
FlushSyncsToVOSpace ==
    /\ (fpc \in {"open", "closed"} /\ ~atOpen.exists /\ Uploads = {})
          => vosFile = Absent
    /\ lastOp \in {"flush", "close"} => vosFile = File(FullContent)

\* The first flush of a file that did not exist at the URI, after a write.
FlushSyncsToVOSpaceWitness ==
    /\ lastOp = "flush"
    /\ ~atOpen.exists
    /\ Cardinality(Uploads) = 1
    /\ written # <<>>
    /\ vosFile = File(written)

\* C10: once the constructor has returned the local file holds exactly the
\* content of the VOSpace file, or nothing when there was no file at the
\* URI, and a read before any write returns just that.
OpenHasNoStaleData ==
    /\ lastOp = "init" =>
          localFile = File(IF atOpen.exists THEN atOpen.data ELSE <<>>)
    /\ (lastOp = "read" /\ written = <<>>) =>
          lastRead = <<IF atOpen.exists THEN atOpen.data ELSE <<>> >>

\* The first read of a file that did not exist at the URI while a local
\* file with content was left over: it returns the empty content.
OpenHasNoStaleDataWitness ==
    /\ lastOp = "read"
    /\ written = <<>>
    /\ ~atOpen.exists
    /\ leftOver.exists /\ leftOver.data # <<>>
    /\ lastRead = << <<>> >>

\* The URI has the four characters "vos:" at its start.
HasVosPrefix == Len(uri) >= 4 /\ SubSeq(uri, 1, 4) = <<"v", "o", "s", ":">>

\* C11: the constructor called with a URI that does not start with "vos:"
\* raises InvalidURIError and nothing else happens: no call to the VOSpace
\* client is made, the local file and the VOSpace file are as they were and
\* no file handle is opened; no such URI ever gets an open file.
InvalidURIRaisesFirst ==
    /\ (fpc # "new" /\ ~HasVosPrefix) =>
          /\ fpc = "failed"
          /\ lastOp = "InvalidURIError"
          /\ vosCalls = <<>>
          /\ localFile = leftOver
          /\ vosFile = atOpen
          /\ buffer = <<>>
    /\ lastOp = "InvalidURIError" => ~HasVosPrefix

\* InvalidURIError was raised while a file existed in VOSpace and a local
\* file was left over: a download or a removal would have shown.
InvalidURIRaisesFirstWitness ==
    /\ lastOp = "InvalidURIError"
    /\ ~HasVosPrefix
    /\ atOpen.exists
    /\ leftOver.exists

(***************************************************************************)
(* Properties of get_property, has_property and set_property               *)
(***************************************************************************)
\* C12: get_property returns the value the property has on the VOSpace node
\* at the time of the call, None when it is absent, and has_property whether
\* it has one, whatever node the client had cached.
GetPropertyIsFresh ==
    /\ pop = "get_property" => lastRet = serverProp
    /\ pop = "has_property" => lastRet = (serverProp # None)

\* get_property returned a value while the cached node was out of date:
\* another client had changed the property since the node was fetched.
GetPropertyIsFreshWitness ==
    /\ pop = "get_property"
    /\ wasStale
    /\ lastRet # None

\* C13: set_property on a property that already has a value sends None and
\* then the new value, in that order, and when it returns the property on
\* the node holds the new value.
SetPropertyClearsThenSets ==
    pop = "set_property" =>
        /\ hadValue => sent = <<None, newVal>>
        /\ serverProp = newVal

(***************************************************************************)
(* Properties of phot_mag                                                  *)
(***************************************************************************)
\* C14: phot_mag returns four values for the first measured source, in the
\* order x, y, magnitude, magnitude error.
PhotMagReturnsFourValues ==
    hpc = "returned" =>
        hresult = Tuple(<<pdump_out[1][1], pdump_out[1][2],
                          pdump_out[1][3] - apcor, pdump_out[1][4]>>)

====
